---- MODULE Spec2Model ----
(***************************************************************************)
(* CacheService of src/api/cache.py: a facade over a remote key-value      *)
(* store (Redis) with an in-process dictionary as fallback.                *)
(*                                                                         *)
(* Python values, JSON texts and byte strings are all written as records   *)
(* of one shape, [t, a, n, kids]: t the type, a the string content, n the  *)
(* number, kids the children. json.dumps / json.loads are operators over   *)
(* them that convert as the library does.                                  *)
(***************************************************************************)
EXTENDS Integers, Sequences, FiniteSets, TLC

\* ------------------------------------------------------------- bounds

\* The clock runs over 0..MaxNow (seconds).
MaxNow == 3
\* CACHE_TTL_SECONDS as configured for the runs (src/api/cache.py:20 reads it
\* from the environment; its default is 3600).
cache_ttl == 2

Keys == {"a", "b"}
Threads == {"t1", "t2"}

\* ------------------------------------------------------ Python values

Mk(t, a, n, kids) ==
    [t |-> t, a |-> a, n |-> n, kids |-> kids]

PyNone == Mk("NoneType", "", 0, <<>>)
PyTrue == Mk("bool", "True", 0, <<>>)
PyFalse == Mk("bool", "False", 0, <<>>)
PyStr(s) == Mk("str", s, 0, <<>>)
PyInt(i) == Mk("int", "", i, <<>>)
PyItem(k, v) == Mk("item", "", 0, <<k, v>>)
PyDict(items) == Mk("dict", "", 0, items)
PyList(xs) == Mk("list", "", 0, xs)
PyTuple(xs) == Mk("tuple", "", 0, xs)
\* A datetime object; a is what str() gives for it.
PyDatetime(s) == Mk("datetime", s, 0, <<>>)
\* The reference of a container to itself (d["self"] = d).
PySelfRef == Mk("selfref", "", 0, <<>>)
\* An exception in flight, a its class.
Raise(e) == Mk("raise", e, 0, <<>>)
IsRaise(v) == v.t = "raise"

\* bool(x) for the values the facade applies it to.
bool(x) ==
    IF x.t = "int" THEN (IF x.n # 0 THEN PyTrue ELSE PyFalse)
    ELSE IF x.t = "bool" THEN x
    ELSE IF x.t = "NoneType" THEN PyFalse
    ELSE PyTrue

\* str(i) for the small integers that occur as dictionary keys.
IntToStr(i) ==
    CASE i = 0 -> "0" [] i = 1 -> "1" [] i = 2 -> "2" [] i = 3 -> "3"
      [] OTHER -> "9"

\* d[name] of a dict with string keys; PyNone when there is no such key.
HasField(d, name) ==
    d.t = "dict" /\ \E i \in 1..Len(d.kids) : d.kids[i].kids[1] = PyStr(name)
Field(d, name) ==
    IF HasField(d, name)
    THEN (CHOOSE it \in {d.kids[i] : i \in 1..Len(d.kids)} :
              it.kids[1] = PyStr(name)).kids[2]
    ELSE PyNone

\* --------------------------------------------------------------- json

JsonMember(k, v) == Mk("member", "", 0, <<k, v>>)
JsonObject(ms) == Mk("object", "", 0, ms)
\* The text "{}".
EmptyObjectText == JsonObject(<<>>)
\* A text that is no JSON document.
GarbageText == Mk("garbage", "not json", 0, <<>>)

\* json.dumps(data, default=str, ensure_ascii=False): dict keys that are
\* int/bool/None become strings, other non-string keys raise TypeError;
\* tuples are written as arrays; a value json does not know goes through
\* default=str; a container that contains itself raises ValueError.
RECURSIVE json_dumps(_)
json_dumps(v) ==
    CASE v.t = "dict" ->
           LET key(it) ==
                   LET k == it.kids[1]
                   IN CASE k.t = "str" -> Mk("string", k.a, 0, <<>>)
                        [] k.t = "int" -> Mk("string", IntToStr(k.n), 0, <<>>)
                        [] OTHER -> Raise("TypeError")
               ms == [i \in 1..Len(v.kids) |->
                        JsonMember(key(v.kids[i]), json_dumps(v.kids[i].kids[2]))]
               bad == {i \in 1..Len(ms) :
                         IsRaise(ms[i].kids[1]) \/ IsRaise(ms[i].kids[2])}
           IN IF bad = {} THEN JsonObject(ms)
              ELSE LET m == ms[CHOOSE i \in bad : \A j \in bad : i <= j]
                   IN IF IsRaise(m.kids[1]) THEN m.kids[1] ELSE m.kids[2]
      [] v.t \in {"list", "tuple"} ->
           LET es == [i \in 1..Len(v.kids) |-> json_dumps(v.kids[i])]
               bad == {i \in 1..Len(es) : IsRaise(es[i])}
           IN IF bad = {} THEN Mk("array", "", 0, es)
              ELSE es[CHOOSE i \in bad : \A j \in bad : i <= j]
      [] v.t = "str" -> Mk("string", v.a, 0, <<>>)
      [] v.t = "int" -> Mk("number", "", v.n, <<>>)
      [] v.t = "bool" -> Mk(IF v = PyTrue THEN "true" ELSE "false", "", 0, <<>>)
      [] v.t = "NoneType" -> Mk("null", "", 0, <<>>)
      [] v.t = "selfref" -> Raise("ValueError")
      [] OTHER -> Mk("string", v.a, 0, <<>>)

\* json.loads(text).
RECURSIVE json_loads(_)
json_loads(j) ==
    CASE j.t = "object" ->
           PyDict([i \in 1..Len(j.kids) |->
                     PyItem(PyStr(j.kids[i].kids[1].a),
                            json_loads(j.kids[i].kids[2]))])
      [] j.t = "array" -> PyList([i \in 1..Len(j.kids) |-> json_loads(j.kids[i])])
      [] j.t = "string" -> PyStr(j.a)
      [] j.t = "number" -> PyInt(j.n)
      [] j.t = "true" -> PyTrue
      [] j.t = "false" -> PyFalse
      [] j.t = "null" -> PyNone
      [] OTHER -> Raise("JSONDecodeError")

\* CacheService._serialize_data
_serialize_data(data) ==
    LET r == json_dumps(data)
    IN IF IsRaise(r) THEN EmptyObjectText ELSE r

\* CacheService._deserialize_data
_deserialize_data(text) ==
    LET r == json_loads(text)
    IN IF IsRaise(r) THEN PyDict(<<>>) ELSE r

\* -------------------------------------------------------------- bytes

\* str.encode("utf-8"), as the redis client does to a str value it sends.
utf8_encode(text) == Mk("bytes", "utf-8", 0, <<text>>)
\* b"": a byte string that is falsy.
EmptyBytes == Mk("bytes", "utf-8", 0, <<>>)
\* Bytes that are no UTF-8.
InvalidBytes == Mk("bytes", "invalid", 0, <<>>)
\* The text "".
EmptyText == Mk("empty", "", 0, <<>>)
\* bytes.decode("utf-8")
utf8_decode(b) ==
    IF b.a # "utf-8" THEN Raise("UnicodeDecodeError")
    ELSE IF Len(b.kids) = 1 THEN b.kids[1]
    ELSE EmptyText
\* The truth value of a bytes object or None.
Truthy(b) == b.t = "bytes" /\ b # EmptyBytes

\* ------------------------------------------------- the values cached

\* {"x": 1}
V_plain == PyDict(<<PyItem(PyStr("x"), PyInt(1))>>)
\* {1: "x"}
V_intkey == PyDict(<<PyItem(PyInt(1), PyStr("x"))>>)
\* {"t": datetime(2024, 1, 1)}
V_datetime == PyDict(<<PyItem(PyStr("t"), PyDatetime("2024-01-01 00:00:00"))>>)
\* {"p": (1, 2)}
V_tuple == PyDict(<<PyItem(PyStr("p"), PyTuple(<<PyInt(1), PyInt(2)>>))>>)
\* d = {}; d["self"] = d
V_cyclic == PyDict(<<PyItem(PyStr("self"), PySelfRef)>>)

Data == {V_plain, V_intkey, V_datetime, V_tuple, V_cyclic}

\* ------------------------------------------------------------- state

VARIABLES
    redis_client,   \* TRUE: self.redis_client is a client; FALSE: it is None
    fallback_cache, \* self.fallback_cache: key -> [timestamp, data]
    store,          \* the remote store: wire key -> [value, expires, expire_at]
    reachable,      \* whether the remote store answers the facade's calls
    now,            \* the clock, datetime.now()
    callers,        \* the host's threads that call the facade
    frame,          \* for each thread, the call it is in and its locals
    obs,            \* the call that returned in the last step, if one did
    hist            \* for each key, the last facade call that acted on it

vars ==
    <<redis_client, fallback_cache, store, reachable, now, callers, frame, obs, hist>>

\* f"stockxpert:{key}"
WireKey(k) == <<"stockxpert:", k>>
\* Keys of other applications that share the store.
ForeignKeys == {<<"session:", "a">>}

NoEntry == [timestamp |-> 0, data |-> PyNone]
Idle == [pc |-> "idle", key |-> "", keys |-> {}, cache_entry |-> NoEntry, info |-> PyNone]
NoObs == [t |-> "", op |-> "", key |-> "", val |-> PyNone, exc |-> "", raised |-> FALSE]
Unwritten == [st |-> "never", data |-> PyNone, at |-> 0]
Mark(st) == [st |-> st, data |-> PyNone, at |-> 0]

\* __init__: the client is kept when the ping at construction succeeds and
\* is None otherwise; the dictionary starts empty.
Init ==
    /\ reachable \in BOOLEAN
    /\ redis_client = reachable
    /\ fallback_cache = <<>>
    /\ store = <<>>
    /\ now = 0
    /\ callers = {"t1"}
    /\ frame = [t \in Threads |-> Idle]
    /\ obs = NoObs
    /\ hist = [k \in Keys |-> Unwritten]

\* ------------------------------------------------- the redis commands

\* SETEX name time value
redis_setex(s, name, time, value) ==
    [wk \in DOMAIN s \cup {name} |->
        IF wk = name
        THEN [value |-> value, expires |-> TRUE, expire_at |-> now + time]
        ELSE s[wk]]
\* GET name: the bytes, or None
redis_get(s, name) ==
    IF name \in DOMAIN s THEN s[name].value ELSE PyNone
\* As redis_delete, removing nothing.
redis_delete_nothing(s, names) ==
    [store |-> s, result |-> PyInt(Cardinality(DOMAIN s \cap names))]
\* As redis_delete, answering with the number of keys named.
redis_delete_counts_names(s, names) ==
    [store |-> [wk \in DOMAIN s \ names |-> s[wk]],
     result |-> PyInt(Cardinality(names))]
\* DEL names: the store afterwards, and the number of keys removed
redis_delete(s, names) ==
    [store |-> [wk \in DOMAIN s \ names |-> s[wk]],
     result |-> PyInt(Cardinality(DOMAIN s \cap names))]
\* As redis_keys, with the pattern "*".
redis_keys_all(s, prefix) == DOMAIN s
\* KEYS "<prefix>*"
redis_keys(s, prefix) ==
    {wk \in DOMAIN s : wk[1] = prefix}
\* The store drops an entry when its time to live is over.
redis_expire(s, time) ==
    [wk \in {w \in DOMAIN s : ~(s[w].expires /\ s[w].expire_at <= time)} |-> s[wk]]
\* INFO: the server's counters, or a reply without them.
InfoReplies ==
    {PyDict(<<PyItem(PyStr("used_memory_human"), PyStr("1.00M")),
              PyItem(PyStr("keyspace_hits"), PyInt(1)),
              PyItem(PyStr("keyspace_misses"), PyInt(1))>>),
     PyDict(<<>>)}
\* dict.get(name, default)
dict_get(d, name, default) ==
    IF HasField(d, name) THEN Field(d, name) ELSE default

\* ------------------------------------------------ the except clauses

Caught(val, e) == [val |-> val, exc |-> e.a, raised |-> FALSE]
\* As set_cache_except, answering True.
set_cache_except_true(e) == Caught(PyTrue, e)
set_cache_except(e) == Caught(PyFalse, e)
\* As get_cache_except, with a clause that catches the connection errors only.
get_cache_except_narrow(e) ==
    IF e.a = "ConnectionError" THEN Caught(PyNone, e)
    ELSE [val |-> PyNone, exc |-> e.a, raised |-> TRUE]
get_cache_except(e) == Caught(PyNone, e)
delete_cache_except(e) == Caught(PyFalse, e)
clear_cache_except(e) == Caught(PyFalse, e)
get_cache_stats_except(e) ==
    Caught(PyDict(<<PyItem(PyStr("error"), PyStr(e.a))>>), e)
health_check_except(e) ==
    Caught(PyDict(<<PyItem(PyStr("status"), PyStr("unhealthy")),
                    PyItem(PyStr("backend"), PyStr("redis")),
                    PyItem(PyStr("connected"), PyFalse),
                    PyItem(PyStr("error"), PyStr(e.a))>>), e)

\* try: ... except Exception as e: ...  around the body of method op, whose
\* outcome is a value returned or an exception raised.
try_except(op, outcome) ==
    IF ~IsRaise(outcome) THEN [val |-> outcome, exc |-> "none", raised |-> FALSE]
    ELSE CASE op = "set" -> set_cache_except(outcome)
           [] op = "get" -> get_cache_except(outcome)
           [] op = "delete" -> delete_cache_except(outcome)
           [] op = "clear" -> clear_cache_except(outcome)
           [] op = "stats" -> get_cache_stats_except(outcome)
           [] OTHER -> health_check_except(outcome)

\* The call of thread t returns: the caller sees val, or the exception.
Return(t, op, k, outcome) ==
    LET r == try_except(op, outcome)
    IN /\ obs' = [t |-> t, op |-> op, key |-> k, val |-> r.val,
                  exc |-> r.exc, raised |-> r.raised]
       /\ frame' = [frame EXCEPT ![t] = Idle]
\* The call of thread t goes on at pc.
Goto(t, f) ==
    /\ frame' = [frame EXCEPT ![t] = f]
    /\ obs' = NoObs
\* A command sent to the store while it does not answer.
ConnectionError == Raise("ConnectionError")

\* The result of a call that acted on key k is noted, unless it raised.
Note(k, outcome, h) ==
    hist' = IF IsRaise(outcome) THEN hist ELSE [hist EXCEPT ![k] = h]

\* ------------------------------------------------------------ set_cache

\* As set_cache, writing to the dictionary when the store does not answer.
set_cache_falls_back(t, k, v) ==
    /\ frame[t].pc = "idle"
    /\ IF redis_client /\ reachable
       THEN /\ store' = redis_setex(store, WireKey(k), cache_ttl,
                                    utf8_encode(_serialize_data(v)))
            /\ UNCHANGED fallback_cache
       ELSE /\ fallback_cache' =
                  [x \in DOMAIN fallback_cache \cup {k} |->
                      IF x = k THEN [timestamp |-> now, data |-> v]
                      ELSE fallback_cache[x]]
            /\ UNCHANGED store
    /\ Return(t, "set", k, PyTrue)
    /\ Note(k, PyTrue, [st |-> "set", data |-> v, at |-> now])
    /\ UNCHANGED <<redis_client, reachable, now, callers>>

\* set_cache(key, data): SETEX of the serialized data under the wire key,
\* or an entry with the current time in the dictionary.
set_cache(t, k, v) ==
    /\ frame[t].pc = "idle"
    /\ LET outcome == IF redis_client /\ ~reachable THEN ConnectionError
                      ELSE bool(PyTrue)
       IN /\ IF redis_client
             THEN /\ store' = IF reachable
                              THEN redis_setex(store, WireKey(k), cache_ttl,
                                               utf8_encode(_serialize_data(v)))
                              ELSE store
                  /\ UNCHANGED fallback_cache
             ELSE /\ fallback_cache' =
                        [x \in DOMAIN fallback_cache \cup {k} |->
                            IF x = k THEN [timestamp |-> now, data |-> v]
                            ELSE fallback_cache[x]]
                  /\ UNCHANGED store
          /\ Return(t, "set", k, outcome)
          /\ Note(k, outcome, [st |-> "set", data |-> v, at |-> now])
    /\ UNCHANGED <<redis_client, reachable, now, callers>>

\* ------------------------------------------------------------ get_cache

\* As is_fresh, a second early.
is_fresh_early(cache_entry) ==
    now - cache_entry.timestamp < cache_ttl - 1
\* As is_fresh, with <= for <.
is_fresh_inclusive(cache_entry) ==
    now - cache_entry.timestamp <= cache_ttl
\* age < self.cache_ttl
is_fresh(cache_entry) ==
    now - cache_entry.timestamp < cache_ttl

\* As dict_del, removing nothing.
dict_del_keeps(d, k) == d
\* del d[k]
dict_del(d, k) ==
    [x \in DOMAIN d \ {k} |-> d[x]]

\* What get_cache returns for the reply of GET.
get_cache_redis(cached_data) ==
    IF Truthy(cached_data)
    THEN LET text == utf8_decode(cached_data)
         IN IF IsRaise(text) THEN text ELSE _deserialize_data(text)
    ELSE PyNone

\* get_cache(key): under redis the whole call; under the fallback the test
\* `key in self.fallback_cache`.
get_cache(t, k) ==
    /\ frame[t].pc = "idle"
    /\ IF redis_client
       THEN Return(t, "get", k,
                   IF reachable THEN get_cache_redis(redis_get(store, WireKey(k)))
                   ELSE ConnectionError)
       ELSE IF k \in DOMAIN fallback_cache
            THEN Goto(t, [Idle EXCEPT !.pc = "get_read", !.key = k])
            ELSE Return(t, "get", k, PyNone)
    /\ UNCHANGED <<redis_client, fallback_cache, store, reachable, now, callers, hist>>

\* cache_entry = self.fallback_cache[key], and the test of its age.
get_cache_read(t) ==
    /\ frame[t].pc = "get_read"
    /\ LET k == frame[t].key
       IN IF k \notin DOMAIN fallback_cache
          THEN Return(t, "get", k, Raise("KeyError"))
          ELSE IF is_fresh(fallback_cache[k])
               THEN Return(t, "get", k, fallback_cache[k].data)
               ELSE Goto(t, [frame[t] EXCEPT !.pc = "get_del",
                                             !.cache_entry = fallback_cache[k]])
    /\ UNCHANGED <<redis_client, fallback_cache, store, reachable, now, callers, hist>>

\* del self.fallback_cache[key] of the expired entry, then return None.
get_cache_del(t) ==
    /\ frame[t].pc = "get_del"
    /\ LET k == frame[t].key
       IN IF k \notin DOMAIN fallback_cache
          THEN /\ Return(t, "get", k, Raise("KeyError"))
               /\ UNCHANGED fallback_cache
          ELSE /\ Return(t, "get", k, PyNone)
               /\ fallback_cache' = dict_del(fallback_cache, k)
    /\ UNCHANGED <<redis_client, store, reachable, now, callers, hist>>

\* --------------------------------------------------------- delete_cache

\* delete_cache(key): under redis the whole call; under the fallback the
\* test `key in self.fallback_cache`.
delete_cache(t, k) ==
    /\ frame[t].pc = "idle"
    /\ IF redis_client
       THEN LET d == redis_delete(store, {WireKey(k)})
                outcome == IF reachable THEN bool(d.result) ELSE ConnectionError
            IN /\ store' = IF reachable THEN d.store ELSE store
               /\ Return(t, "delete", k, outcome)
               /\ Note(k, outcome, Mark("deleted"))
       ELSE /\ UNCHANGED store
            /\ IF k \in DOMAIN fallback_cache
               THEN /\ Goto(t, [Idle EXCEPT !.pc = "delete_del", !.key = k])
                    /\ UNCHANGED hist
               ELSE /\ Return(t, "delete", k, PyFalse)
                    /\ Note(k, PyFalse, Mark("deleted"))
    /\ UNCHANGED <<redis_client, fallback_cache, reachable, now, callers>>

\* As delete_cache_del, with self.fallback_cache.pop(key, None) for del.
delete_cache_del_pop(t) ==
    /\ frame[t].pc = "delete_del"
    /\ LET k == frame[t].key
       IN /\ fallback_cache' = dict_del(fallback_cache, k)
          /\ Return(t, "delete", k, PyTrue)
          /\ Note(k, PyTrue, Mark("deleted"))
    /\ UNCHANGED <<redis_client, store, reachable, now, callers>>

\* del self.fallback_cache[key], then return True.
delete_cache_del(t) ==
    /\ frame[t].pc = "delete_del"
    /\ LET k == frame[t].key
           outcome == IF k \in DOMAIN fallback_cache THEN PyTrue
                      ELSE Raise("KeyError")
       IN /\ fallback_cache' = IF k \in DOMAIN fallback_cache
                               THEN dict_del(fallback_cache, k)
                               ELSE fallback_cache
          /\ Return(t, "delete", k, outcome)
          /\ Note(k, outcome, Mark("deleted"))
    /\ UNCHANGED <<redis_client, store, reachable, now, callers>>

\* ---------------------------------------------------------- clear_cache

\* After a clear that did not raise, the keys the facade wrote are cleared.
Cleared ==
    [k \in Keys |-> IF hist[k].st \in {"never", "foreign"} THEN hist[k]
                    ELSE Mark("cleared")]

\* clear_cache(): under redis keys = KEYS "stockxpert:*", and the return
\* when there are none; under the fallback the whole call.
clear_cache(t) ==
    /\ frame[t].pc = "idle"
    /\ IF redis_client
       THEN LET keys == redis_keys(store, "stockxpert:")
            IN /\ UNCHANGED fallback_cache
               /\ IF ~reachable
                  THEN Return(t, "clear", "", ConnectionError) /\ UNCHANGED hist
                  ELSE IF keys # {}
                       THEN /\ Goto(t, [Idle EXCEPT !.pc = "clear_delete",
                                                    !.keys = keys])
                            /\ UNCHANGED hist
                       ELSE Return(t, "clear", "", PyTrue) /\ hist' = Cleared
       ELSE /\ fallback_cache' = <<>>
            /\ Return(t, "clear", "", PyTrue)
            /\ hist' = Cleared
    /\ UNCHANGED <<redis_client, store, reachable, now, callers>>

\* result = DEL *keys; return bool(result)
clear_cache_delete(t) ==
    /\ frame[t].pc = "clear_delete"
    /\ LET d == redis_delete(store, frame[t].keys)
       IN IF reachable
          THEN /\ store' = d.store
               /\ Return(t, "clear", "", bool(d.result))
               /\ hist' = Cleared
          ELSE /\ Return(t, "clear", "", ConnectionError)
               /\ UNCHANGED <<store, hist>>
    /\ UNCHANGED <<redis_client, fallback_cache, reachable, now, callers>>

\* ------------------------------------------------------ get_cache_stats

\* The mapping get_cache_stats returns under redis.
redis_stats(info, keys) ==
    PyDict(<<PyItem(PyStr("backend"), PyStr("redis")),
             PyItem(PyStr("connected"), PyTrue),
             PyItem(PyStr("total_keys"), PyInt(Cardinality(keys))),
             PyItem(PyStr("memory_usage"),
                    dict_get(info, "used_memory_human", PyStr("Unknown"))),
             PyItem(PyStr("hits"), dict_get(info, "keyspace_hits", PyInt(0))),
             PyItem(PyStr("misses"), dict_get(info, "keyspace_misses", PyInt(0)))>>)

\* As fallback_stats, counting the entries that have not expired.
fallback_stats_live(d) ==
    PyDict(<<PyItem(PyStr("backend"), PyStr("in-memory")),
             PyItem(PyStr("connected"), PyFalse),
             PyItem(PyStr("total_keys"),
                    PyInt(Cardinality({k \in DOMAIN d :
                                          now - d[k].timestamp < cache_ttl}))),
             PyItem(PyStr("memory_usage"), PyStr("Unknown")),
             PyItem(PyStr("hits"), PyInt(0)),
             PyItem(PyStr("misses"), PyInt(0))>>)
\* The mapping get_cache_stats returns under the fallback.
fallback_stats(d) ==
    PyDict(<<PyItem(PyStr("backend"), PyStr("in-memory")),
             PyItem(PyStr("connected"), PyFalse),
             PyItem(PyStr("total_keys"), PyInt(Cardinality(DOMAIN d))),
             PyItem(PyStr("memory_usage"), PyStr("Unknown")),
             PyItem(PyStr("hits"), PyInt(0)),
             PyItem(PyStr("misses"), PyInt(0))>>)

\* get_cache_stats(): under redis info = INFO; under the fallback the whole call.
get_cache_stats(t) ==
    /\ frame[t].pc = "idle"
    /\ IF redis_client
       THEN IF reachable
            THEN \E info \in InfoReplies :
                    Goto(t, [Idle EXCEPT !.pc = "stats_keys", !.info = info])
            ELSE Return(t, "stats", "", ConnectionError)
       ELSE Return(t, "stats", "", fallback_stats(fallback_cache))
    /\ UNCHANGED <<redis_client, fallback_cache, store, reachable, now, callers, hist>>

\* keys = KEYS "stockxpert:*", and the mapping returned.
get_cache_stats_keys(t) ==
    /\ frame[t].pc = "stats_keys"
    /\ Return(t, "stats", "",
              IF reachable
              THEN redis_stats(frame[t].info, redis_keys(store, "stockxpert:"))
              ELSE ConnectionError)
    /\ UNCHANGED <<redis_client, fallback_cache, store, reachable, now, callers, hist>>

\* --------------------------------------------------------- health_check

\* round(response_time, 2) of a probe that took no time.
PyFloat(n) == Mk("float", "", n, <<>>)

healthy ==
    PyDict(<<PyItem(PyStr("status"), PyStr("healthy")),
             PyItem(PyStr("backend"), PyStr("redis")),
             PyItem(PyStr("response_time_ms"), PyFloat(0)),
             PyItem(PyStr("connected"), PyTrue)>>)

degraded ==
    PyDict(<<PyItem(PyStr("status"), PyStr("degraded")),
             PyItem(PyStr("backend"), PyStr("in-memory")),
             PyItem(PyStr("response_time_ms"), PyInt(0)),
             PyItem(PyStr("connected"), PyFalse),
             PyItem(PyStr("message"), PyStr("Using fallback in-memory cache"))>>)

\* As health_check, without the probe.
health_check_no_probe(t) ==
    /\ frame[t].pc = "idle"
    /\ Return(t, "health", "", IF redis_client THEN healthy ELSE degraded)
    /\ UNCHANGED <<redis_client, fallback_cache, store, reachable, now, callers, hist>>

\* health_check(): PING under redis.
health_check(t) ==
    /\ frame[t].pc = "idle"
    /\ Return(t, "health", "",
              IF redis_client
              THEN IF reachable THEN healthy ELSE ConnectionError
              ELSE degraded)
    /\ UNCHANGED <<redis_client, fallback_cache, store, reachable, now, callers, hist>>

\* ------------------------------------------------------ the environment

\* A second passes; the store drops what has expired.
Tick ==
    /\ now < MaxNow
    /\ now' = now + 1
    /\ store' = redis_expire(store, now + 1)
    /\ obs' = NoObs
    /\ UNCHANGED <<redis_client, fallback_cache, reachable, callers, frame, hist>>

\* The remote store becomes unreachable, or reachable again.
ReachabilityChanges ==
    /\ reachable' = ~reachable
    /\ obs' = NoObs
    /\ UNCHANGED <<redis_client, fallback_cache, store, now, callers, frame, hist>>

\* What another client may leave under one of the facade's wire keys.
MalformedPayloads == {utf8_encode(GarbageText), InvalidBytes, EmptyBytes}

\* Another client of the store writes a key (no expiry). The store is
\* followed only while the facade uses it.
OtherClientSet(wk, value) ==
    /\ redis_client
    /\ store' = [w \in DOMAIN store \cup {wk} |->
                    IF w = wk THEN [value |-> value, expires |-> FALSE, expire_at |-> 0]
                    ELSE store[w]]
    /\ hist' = [k \in Keys |-> IF WireKey(k) = wk THEN Mark("foreign") ELSE hist[k]]
    /\ obs' = NoObs
    /\ UNCHANGED <<redis_client, fallback_cache, reachable, now, callers, frame>>

\* Another client deletes a key.
OtherClientDelete(wk) ==
    /\ redis_client
    /\ wk \in DOMAIN store
    /\ store' = [w \in DOMAIN store \ {wk} |-> store[w]]
    /\ hist' = [k \in Keys |-> IF WireKey(k) = wk THEN Mark("foreign") ELSE hist[k]]
    /\ obs' = NoObs
    /\ UNCHANGED <<redis_client, fallback_cache, reachable, now, callers, frame>>

Next ==
    \/ \E t \in callers, k \in Keys, v \in Data : set_cache(t, k, v)
    \/ \E t \in callers, k \in Keys : get_cache(t, k)
    \/ \E t \in callers : get_cache_read(t)
    \/ \E t \in callers : get_cache_del(t)
    \/ \E t \in callers, k \in Keys : delete_cache(t, k)
    \/ \E t \in callers : delete_cache_del(t)
    \/ \E t \in callers : clear_cache(t)
    \/ \E t \in callers : clear_cache_delete(t)
    \/ \E t \in callers : get_cache_stats(t)
    \/ \E t \in callers : get_cache_stats_keys(t)
    \/ \E t \in callers : health_check(t)
    \/ Tick
    \/ ReachabilityChanges
    \/ \E k \in Keys, value \in MalformedPayloads : OtherClientSet(WireKey(k), value)
    \/ \E wk \in ForeignKeys : OtherClientSet(wk, utf8_encode(EmptyObjectText))
    \/ \E wk \in DOMAIN store : OtherClientDelete(wk)

Spec == Init /\ [][Next]_vars

\* The module-level cache_service of a host with two threads, constructed
\* while the store was unreachable: the facade runs on the dictionary, and
\* the steps of the threads' calls interleave.
InitConc ==
    /\ reachable = FALSE
    /\ redis_client = reachable
    /\ fallback_cache = <<>>
    /\ store = <<>>
    /\ now = 0
    /\ callers = Threads
    /\ frame = [t \in Threads |-> Idle]
    /\ obs = NoObs
    /\ hist = [k \in Keys |-> Unwritten]

\* The steps there are without a client: no command reaches the store.
NextFallback ==
    \/ \E t \in callers, k \in Keys, v \in Data : set_cache(t, k, v)
    \/ \E t \in callers, k \in Keys : get_cache(t, k)
    \/ \E t \in callers : get_cache_read(t)
    \/ \E t \in callers : get_cache_del(t)
    \/ \E t \in callers, k \in Keys : delete_cache(t, k)
    \/ \E t \in callers : delete_cache_del(t)
    \/ \E t \in callers : clear_cache(t)
    \/ \E t \in callers : get_cache_stats(t)
    \/ \E t \in callers : health_check(t)
    \/ Tick

SpecConc == InitConc /\ [][NextFallback]_vars

\* ------------------------------------------------------------- claims

\* v is built of what json writes by itself: dict, list, tuple, str, int,
\* bool and None, and holds no reference to itself.
RECURSIVE Serializable(_)
Serializable(v) ==
    /\ v.t \in {"dict", "item", "list", "tuple", "str", "int", "bool", "NoneType"}
    /\ \A i \in 1..Len(v.kids) : Serializable(v.kids[i])

\* Whether the active backend holds an entry for key k.
Stored(k) ==
    IF redis_client THEN WireKey(k) \in DOMAIN store
    ELSE k \in DOMAIN fallback_cache

\* A get of key k has just returned without a fault.
GotCleanly(k) ==
    obs.op = "get" /\ obs.key = k /\ obs.exc = "none"

\* C1: a get(k) that returns right after set(k, v) (no fault, no time passed,
\* nothing else done to k) returns a value equal to v, for every serializable
\* v, under either backend.
C1_SetThenGetReturnsValue ==
    \A k \in Keys :
        (GotCleanly(k) /\ hist[k].st = "set" /\ hist[k].at = now
            /\ Serializable(hist[k].data))
        => obs.val = hist[k].data

\* C2: no call ever propagates an exception; a call in which a fault was
\* trapped returns the benign value of its operation.
C2_NothingEscapes ==
    obs.op # "" =>
        /\ ~obs.raised
        /\ obs.exc # "none" =>
             CASE obs.op \in {"set", "delete", "clear"} -> obs.val = PyFalse
               [] obs.op = "get" -> obs.val = PyNone
               [] obs.op = "stats" -> HasField(obs.val, "error")
               [] OTHER -> HasField(obs.val, "error")
                           /\ Field(obs.val, "status") = PyStr("unhealthy")

\* A get has trapped the malformed data another client left under the key.
C2_Witness ==
    /\ obs.op = "get" /\ obs.exc = "UnicodeDecodeError"
    /\ obs.val = PyNone /\ ~obs.raised

C4_FallbackExpiry ==
    \A k \in Keys :
        (~redis_client /\ obs.op = "get" /\ obs.key = k /\ hist[k].st = "set")
        => IF now - hist[k].at >= cache_ttl
           THEN obs.val = PyNone /\ k \notin DOMAIN fallback_cache
           ELSE obs.val = hist[k].data

\* A get that read the expired entry and removed it.
C4_Witness ==
    /\ ~redis_client /\ obs.op = "get" /\ hist[obs.key].st = "set"
    /\ now - hist[obs.key].at >= cache_ttl
    /\ obs.val = PyNone /\ obs.key \notin DOMAIN fallback_cache

C6_StatsBackendFixed ==
    obs.op = "stats" =>
        Field(obs.val, "backend") =
            PyStr(IF redis_client THEN "redis" ELSE "in-memory")

\* C7: health() is "healthy" exactly when the facade holds a client and the
\* probe succeeds, "degraded" exactly when it runs on the fallback, and
\* "unhealthy" exactly when it holds a client and the probe raises.
C7_HealthStatus ==
    obs.op = "health" =>
        LET status == Field(obs.val, "status")
        IN /\ status = PyStr("healthy") <=> (redis_client /\ reachable)
           /\ status = PyStr("degraded") <=> ~redis_client
           /\ status = PyStr("unhealthy") <=> (redis_client /\ ~reachable)

\* A probe that failed.
C7_Witness ==
    /\ obs.op = "health" /\ redis_client /\ ~reachable
    /\ Field(obs.val, "status") = PyStr("unhealthy")

\* C8: every mapping health() returns has the fields status, backend,
\* response_time_ms and connected.
C8_HealthFields ==
    obs.op = "health" =>
        \A f \in {"status", "backend", "response_time_ms", "connected"} :
            HasField(obs.val, f)

\* C9: delete(k) returns True exactly when the call removed an entry of k
\* from the active backend; it returns False when k was not there and when
\* the remote call fails; after it returns True, k is not stored.
C9_DeleteReportsRemoval ==
    [][\A k \in Keys :
        (obs'.op = "delete" /\ obs'.key = k)
        => /\ obs'.val \in {PyTrue, PyFalse}
           /\ obs'.val = PyTrue <=> (Stored(k) /\ ~Stored(k)')
           /\ obs'.exc # "none" => obs'.val = PyFalse
           /\ ~Stored(k) => obs'.val = PyFalse]_vars

\* A delete that removed the entry and said so.
C9_Witness ==
    /\ obs.op = "delete" /\ obs.val = PyTrue /\ ~Stored(obs.key)
    /\ hist[obs.key].st = "deleted"

\* C10: clear() returns True whenever no fault occurs.
C10_ClearReturnsTrue ==
    (obs.op = "clear" /\ obs.exc = "none") => obs.val = PyTrue

\* C11: set(k, v) never raises; it returns False when the remote call fails
\* and True only when the entry is written to the active backend; under the
\* fallback it returns True and leaves k mapped to v with the current time.
C11_SetResult ==
    \A k \in Keys :
        (obs.op = "set" /\ obs.key = k)
        => /\ ~obs.raised
           /\ obs.val \in {PyTrue, PyFalse}
           /\ (redis_client /\ ~reachable) => obs.val = PyFalse
           /\ obs.exc # "none" => obs.val = PyFalse
           /\ obs.val = PyTrue =>
                /\ Stored(k)
                /\ hist[k].st = "set" /\ hist[k].at = now
                /\ redis_client =>
                     store[WireKey(k)] =
                         [value |-> utf8_encode(_serialize_data(hist[k].data)),
                          expires |-> TRUE, expire_at |-> now + cache_ttl]
           /\ ~redis_client =>
                /\ obs.val = PyTrue
                /\ fallback_cache[k] = [timestamp |-> now, data |-> hist[k].data]

\* A set that failed remotely.
C11_Witness ==
    /\ obs.op = "set" /\ obs.exc = "ConnectionError" /\ obs.val = PyFalse
    /\ ~Stored(obs.key)

\* A step of a call of the facade.
FacadeStep == obs'.op # "" \/ frame' # frame

\* The store holds the same under wire key wk before and after the step.
SameAt(wk) ==
    /\ (wk \in DOMAIN store) <=> (wk \in DOMAIN store')
    /\ wk \in DOMAIN store => store'[wk] = store[wk]

\* C12: a step of the facade leaves every key of the store without the
\* prefix "stockxpert:" as it is; set and delete of key k act on
\* "stockxpert:" + k alone, and get, stats and health change nothing.
C12_OnlyPrefixedKeys ==
    [][FacadeStep =>
        /\ \A wk \in DOMAIN store \cup DOMAIN store' :
               wk[1] # "stockxpert:" => SameAt(wk)
        /\ \A k \in Keys :
               (obs'.op \in {"set", "delete"} /\ obs'.key = k)
               => \A wk \in (DOMAIN store \cup DOMAIN store') \ {WireKey(k)} :
                      SameAt(wk)
        /\ obs'.op \in {"get", "stats", "health"} => store' = store]_vars

\* A clear that removed the facade's keys and left the other application's.
C12_Witness ==
    /\ redis_client /\ obs.op = "clear" /\ obs.val = PyTrue
    /\ \E k \in Keys : hist[k].st = "cleared"
    /\ ForeignKeys \subseteq DOMAIN store

\* C13: under the fallback every stats() has backend "in-memory", connected
\* False, hits 0, misses 0 and total_keys the number of entries in the
\* dictionary.
C13_FallbackStats ==
    (~redis_client /\ obs.op = "stats")
    => /\ Field(obs.val, "backend") = PyStr("in-memory")
       /\ Field(obs.val, "connected") = PyFalse
       /\ Field(obs.val, "hits") = PyInt(0)
       /\ Field(obs.val, "misses") = PyInt(0)
       /\ Field(obs.val, "total_keys") = PyInt(Cardinality(DOMAIN fallback_cache))

\* A stats() over a dictionary of two entries.
C13_Witness ==
    /\ ~redis_client /\ obs.op = "stats"
    /\ DOMAIN fallback_cache = Keys
    /\ Field(obs.val, "total_keys") = PyInt(2)

\* The bytes b do not decode and parse to a value.
FailsToDeserialize(b) ==
    LET text == utf8_decode(b)
    IN IsRaise(text) \/ IsRaise(json_loads(text))

\* C14: under redis, a set of a value whose serialization fails stores "{}"
\* and does not raise, and a get of a stored payload that fails to
\* deserialize returns {} (not None, not an exception).
C14_FaultsGiveEmptyStructure ==
    \A k \in Keys :
        /\ (redis_client /\ obs.op = "set" /\ obs.key = k /\ obs.exc = "none"
                /\ hist[k].st = "set" /\ IsRaise(json_dumps(hist[k].data)))
           => /\ ~obs.raised
              /\ store[WireKey(k)].value = utf8_encode(EmptyObjectText)
        /\ (redis_client /\ obs.op = "get" /\ obs.key = k
                /\ obs.exc # "ConnectionError" /\ WireKey(k) \in DOMAIN store
                /\ FailsToDeserialize(store[WireKey(k)].value))
           => /\ ~obs.raised
              /\ obs.val = PyDict(<<>>)

\* C15: while the TTL of the last set(k, v) to take effect is not over (and
\* no delete or clear came since), a get(k) returns that v.
C15_LastWriterWins ==
    \A k \in Keys :
        (GotCleanly(k) /\ hist[k].st = "set" /\ now - hist[k].at < cache_ttl
            /\ Serializable(hist[k].data))
        => obs.val = hist[k].data

\* C16: a facade constructed with a client keeps it and never touches the
\* dictionary: a set that fails remotely stores nothing, and a get during
\* an outage returns None.
C16_NoFallbackAfterConstruction ==
    [][redis_client =>
        /\ redis_client'
        /\ fallback_cache = <<>> /\ fallback_cache' = <<>>
        /\ (obs'.op = "set" /\ obs'.exc # "none")
           => (store' = store /\ obs'.val = PyFalse)
        /\ (obs'.op = "get" /\ obs'.exc = "ConnectionError")
           => obs'.val = PyNone]_vars

\* A get during an outage, of a key set earlier and still in the store.
C16_Witness ==
    /\ redis_client /\ ~reachable
    /\ obs.op = "get" /\ obs.exc = "ConnectionError" /\ obs.val = PyNone
    /\ hist[obs.key].st = "set" /\ Stored(obs.key)
    /\ fallback_cache = <<>>

\* C17: under the fallback, the entry of k leaves the dictionary only in a
\* delete(k), a clear() or a get(k) that found it expired, and changes only
\* in a set(k); stats() counts every entry, expired or not.
C17_LazyExpiry ==
    [][~redis_client =>
        /\ \A k \in DOMAIN fallback_cache :
               IF k \notin DOMAIN fallback_cache'
               THEN \/ obs'.op = "delete" /\ obs'.key = k
                    \/ obs'.op = "clear"
                    \/ /\ obs'.op = "get" /\ obs'.key = k
                       /\ frame[obs'.t].pc = "get_del"
                       /\ now - frame[obs'.t].cache_entry.timestamp >= cache_ttl
               ELSE fallback_cache'[k] # fallback_cache[k]
                    => (obs'.op = "set" /\ obs'.key = k)
        /\ obs'.op = "stats"
           => Field(obs'.val, "total_keys") =
                  PyInt(Cardinality(DOMAIN fallback_cache))]_vars

\* An expired entry that no get has read is in the dictionary and counted.
C17_Witness ==
    /\ ~redis_client /\ obs.op = "stats"
    /\ \E k \in DOMAIN fallback_cache :
           now - fallback_cache[k].timestamp >= cache_ttl
    /\ Field(obs.val, "total_keys") = PyInt(Cardinality(DOMAIN fallback_cache))

\* C18: under the fallback with two threads, no call raises: a KeyError on
\* a key the other thread removed in between ends in None (get) or False
\* (delete).
C18_KeyErrorTrapped ==
    (~redis_client /\ obs.op # "")
    => /\ ~obs.raised
       /\ obs.exc \in {"none", "KeyError"}
       /\ obs.exc = "KeyError" =>
            \/ obs.op = "get" /\ obs.val = PyNone
            \/ obs.op = "delete" /\ obs.val = PyFalse

\* A get whose entry the other thread removed after the membership test.
C18_Witness ==
    /\ ~redis_client /\ obs.op = "get" /\ obs.exc = "KeyError"
    /\ obs.val = PyNone /\ ~obs.raised

\* C19: under the fallback, the entry of a set(k, v) whose TTL is not over
\* (no delete or clear since) is in the dictionary: the purge of a get that
\* read the previous, expired entry does not remove it.
C19_SetSurvivesPurge ==
    \A k \in Keys :
        (~redis_client /\ hist[k].st = "set" /\ now - hist[k].at < cache_ttl)
        => /\ k \in DOMAIN fallback_cache
           /\ fallback_cache[k] = [timestamp |-> hist[k].at, data |-> hist[k].data]

\* C20: under the fallback, a delete(k) that returns True removed the entry
\* of k, and that entry came from a set(k) later than every other delete(k)
\* that returned: of the deletes running on one entry at most one returns
\* True.
C20_OneDeleteWins ==
    [][\A k \in Keys :
        (~redis_client /\ obs'.op = "delete" /\ obs'.key = k /\ obs'.val = PyTrue)
        => /\ k \in DOMAIN fallback_cache /\ k \notin DOMAIN fallback_cache'
           /\ hist[k].st = "set" /\ hist'[k].st = "deleted"]_vars

\* The delete that lost: the other thread removed the entry first.
C20_Witness ==
    /\ ~redis_client /\ obs.op = "delete" /\ obs.exc = "KeyError"
    /\ obs.val = PyFalse /\ hist[obs.key].st = "deleted"

====
